---- MODULE Spec2Model ----
(***************************************************************************)
(* turtle-build: the command runner's admission gate                       *)
(* (src/infrastructure/command_runner.rs) and the top-level driver         *)
(* (src/main.rs: main, execute, parse_modules, resolve_submodule_path).    *)
(***************************************************************************)
EXTENDS Integers, Sequences, FiniteSets, TLC

(* ---------------------------- model bounds ----------------------------- *)
NumCallers == 3
MaxJobLimit == 2
MaxFiles == 3        \* canonical paths the file system can resolve to
MaxLiterals == 2     \* distinct include/submodule literal texts
MaxIncludes == 3     \* include/submodule statements in all modules together
MaxWork == 4         \* longest work-list the model follows
WordBits == 12       \* width of usize in the model
MaxDigits == 2       \* digits of a numeric version identifier

Callers == 1..NumCallers

\* canonical paths; Root is what the build file argument canonicalizes to
Files == 1..MaxFiles
Root == 1
\* literal texts of include/submodule statements
Literals == 1..MaxLiterals

\* ApplicationError values that reach main
Errors == {"Io", "Parse", "Cycle", "Compile", "Storage", "Build", "Other"}

VARIABLES
    (* OsCommandRunner and the futures of its concurrent run() calls *)
    job_limit,      \* the argument of OsCommandRunner::new
    permits,        \* free permits of self.semaphore
    waiters,        \* run calls suspended in semaphore.acquire(), oldest first
    rpc,            \* position of each caller inside run
    permit,         \* permit[c]: the local `permit` of c's run call is live
    alive,          \* callers whose spawned process has not exited yet
    output,         \* what c's last run call returned: "none", "Ok", "Err"
    spawned,        \* processes spawned by c's current run call
    status,         \* exit status of the process of c's current run call, -1 if none
    (* main and execute *)
    target_os,      \* cfg!(target_os = "macos") of this build: "macos" or "other"
    version,        \* env!("CARGO_PKG_VERSION") of this build
    file_limit,     \* the limit given to OsFileSystem::new, -1 before that
    fs,             \* file system: canonical path -> (literal -> canonical path)
    configuration,  \* what compile returned: <<>> or <<build_directory>>
    database_path,  \* the path given to database().initialize, <<>> before that
    arguments,      \* Arguments::parse(): quiet, log_prefix, tool
    pc,             \* position of the main task
    paths,          \* parse_modules: the work-list (a Vec used as a stack)
    modules,        \* parse_modules: canonical path -> parsed Module
    dependencies,   \* parse_modules: canonical path -> (literal -> canonical path)
    reread,         \* canonical paths read and parsed more than once
    turn,           \* parity of the loop iterations parse_modules has made
    result,         \* what execute returned: "none", "Ok" or an error
    calls,          \* library operations execute has invoked, in order
    fault,          \* the first failing step and its error, or <<>>
    stderr,         \* lines main handed to console.write_stderr
    write_result,   \* what write_stderr returned: "none", "Ok", "Err"
    exit_code       \* exit status of the process, -1 while it runs

rvars == <<job_limit, permits, waiters, rpc, permit, alive, output, spawned,
           status>>
cvars == <<target_os, version, file_limit>>
mvars == <<cvars, fs, configuration, database_path, arguments, pc, paths, modules, dependencies, reread, turn, result,
           calls, fault, stderr, write_result, exit_code>>

vars == <<rvars, mvars>>

(* ------------------------ sequence helpers ----------------------------- *)
Range(s) == {s[i] : i \in 1..Len(s)}
EmptyMap == [k \in {} |-> k]
Insert(m, k, v) == (k :> v) @@ m

(* =================== OsCommandRunner (command_runner.rs) =============== *)

\* Semaphore::new(job_limit)
NewSemaphore(n) == n

\* OsCommandRunner::new(job_limit), no run call made yet
NewRunner(n) ==
    /\ job_limit = n
    /\ permits = NewSemaphore(n)
    /\ waiters = <<>>
    /\ rpc = [c \in Callers |-> "idle"]
    /\ permit = [c \in Callers |-> FALSE]
    /\ alive = {}
    /\ output = [c \in Callers |-> "none"]
    /\ spawned = [c \in Callers |-> 0]
    /\ status = [c \in Callers |-> -1]

\* semaphore.acquire() completes at once only when a permit is free
CanAcquireNoCheck(p) == TRUE
CanAcquire(p) == p > 0

\* `let permit = self.semaphore.acquire().await?;`
\* the semaphore is never closed, so the `?` never returns
Acquire(c) ==
    /\ rpc[c] = "idle"
    /\ output' = [output EXCEPT ![c] = "none"]
    /\ spawned' = [spawned EXCEPT ![c] = 0]
    /\ IF CanAcquire(permits)
       THEN /\ permits' = permits - 1
            /\ permit' = [permit EXCEPT ![c] = TRUE]
            /\ rpc' = [rpc EXCEPT ![c] = "acquired"]
            /\ UNCHANGED waiters
       ELSE /\ waiters' = Append(waiters, c)
            /\ rpc' = [rpc EXCEPT ![c] = "waiting"]
            /\ UNCHANGED <<permits, permit>>
    /\ status' = [status EXCEPT ![c] = -1]
    /\ UNCHANGED <<mvars, job_limit, alive>>

\* Dropping a SemaphorePermit: the permit goes to the oldest waiter if there
\* is one, otherwise back to the free count.  Returns the new
\* <<permits, waiters, rpc, permit>> after caller c gave its permit back.
ReleaseLeak(c, pos) ==
    <<permits, waiters, [rpc EXCEPT ![c] = pos], [permit EXCEPT ![c] = FALSE]>>
ReleaseNoWake(c, pos) ==
    <<permits + 1, waiters, [rpc EXCEPT ![c] = pos], [permit EXCEPT ![c] = FALSE]>>
Release(c, pos) ==
    IF waiters # <<>>
    THEN LET w == Head(waiters) IN
         << permits, Tail(waiters),
            [rpc EXCEPT ![c] = pos, ![w] = "acquired"],
            [permit EXCEPT ![c] = FALSE, ![w] = TRUE] >>
    ELSE << permits + 1, waiters,
            [rpc EXCEPT ![c] = pos], [permit EXCEPT ![c] = FALSE] >>

\* the permit is released on the `?` return of line 28 (scope exit)
ErrorReturnLeak(c) == ReleaseLeak(c, "idle")
ErrorRetry(c) == <<permits, waiters, [rpc EXCEPT ![c] = "acquired"], permit>>
ErrorReturn(c) == Release(c, "idle")

\* `drop(permit);` of line 30
DropNoWake(c) == ReleaseNoWake(c, "idle")
Drop(c) == Release(c, "idle")

\* Command::new("nu").arg("-c").arg(command).output(): the process starts
Spawn(c) ==
    /\ rpc[c] = "acquired"
    /\ rpc' = [rpc EXCEPT ![c] = "running"]
    /\ alive' = alive \cup {c}
    /\ spawned' = [spawned EXCEPT ![c] = @ + 1]
    /\ UNCHANGED <<mvars, status, job_limit, permits, waiters, permit, output>>

\* ... .output().await? : constructing the process failed, Err is returned
SpawnError(c) ==
    /\ rpc[c] = "acquired"
    /\ LET r == ErrorReturn(c) IN
        /\ permits' = r[1]
        /\ waiters' = r[2]
        /\ rpc' = r[3]
        /\ permit' = r[4]
    /\ output' = [output EXCEPT ![c] = "Err"]
    /\ UNCHANGED <<mvars, status, job_limit, alive, spawned>>

\* exit statuses of a process: success and failure
ExitStatuses == {0, 1}

\* ... .output().await : the process exited (any status), output collected
ProcessExit(c) ==
    /\ rpc[c] = "running"
    /\ alive' = alive \ {c}
    /\ rpc' = [rpc EXCEPT ![c] = "exited"]
    /\ \E st \in ExitStatuses : status' = [status EXCEPT ![c] = st]
    /\ UNCHANGED <<mvars, job_limit, permits, waiters, permit, output, spawned>>

\* ... .output().await? : awaiting the process failed, Err is returned
AwaitError(c) ==
    /\ rpc[c] = "running"
    /\ alive' = alive \ {c}
    /\ LET r == ErrorReturn(c) IN
        /\ permits' = r[1]
        /\ waiters' = r[2]
        /\ rpc' = r[3]
        /\ permit' = r[4]
    /\ output' = [output EXCEPT ![c] = "Err"]
    /\ UNCHANGED <<mvars, status, job_limit, spawned>>

\* `drop(permit); Ok(output)`
Return(c) ==
    /\ rpc[c] = "exited"
    /\ LET r == Drop(c) IN
        /\ permits' = r[1]
        /\ waiters' = r[2]
        /\ rpc' = r[3]
        /\ permit' = r[4]
    /\ output' = [output EXCEPT ![c] = "Ok"]
    /\ UNCHANGED <<mvars, status, job_limit, alive, spawned>>

NextRunner ==
    \E c \in Callers :
        \/ Acquire(c)
        \/ Spawn(c)
        \/ SpawnError(c)
        \/ ProcessExit(c)
        \/ AwaitError(c)
        \/ Return(c)

(* ========================= main.rs: the driver ========================= *)

\* exit status of a Rust process whose main thread panicked
PanicExitCode == 101

ArgumentsSet ==
    [quiet : BOOLEAN, log_prefix : {<<>>, <<"tag: ">>}, tool : {"None", "CleanDead"}]


(* ----------------------- main: building the context -------------------- *)

\* usize
WordSize == 2 ^ WordBits
Words == 0..(WordSize - 1)

\* line 23
OPEN_FILE_LIMIT(os) == IF os = "macos" THEN 256 ELSE 1024
\* line 24
DEFAULT_FILE_COUNT_PER_PROCESS == 3

\* Semaphore::MAX_PERMITS, usize::MAX >> 3: Semaphore::new panics above it
MAX_PERMITS == (WordSize - 1) \div 8

\* usize::saturating_sub
WrappingSub(a, b) == (a - b) % WordSize
SaturatingSub(a, b) == IF a >= b THEN a - b ELSE 0
Max(a, b) == IF a >= b THEN a ELSE b

\* `job_limit + 1` or the product leaves usize: a panic when the build
\* checks overflow, a wrapped value when it does not
Overflows(n) ==
    \/ n + 1 >= WordSize
    \/ DEFAULT_FILE_COUNT_PER_PROCESS * ((n + 1) % WordSize) >= WordSize

\* lines 35-37, in usize arithmetic
OpenFileBudget(os, n) ==
    Max(SaturatingSub(OPEN_FILE_LIMIT(os),
                      (DEFAULT_FILE_COUNT_PER_PROCESS * ((n + 1) % WordSize)) % WordSize),
        1)

\* line 31: OsCommandRunner::new(job_limit), the first argument of
\* Context::new
ConstructRunner ==
    /\ pc = "main"
    /\ IF job_limit > MAX_PERMITS
       THEN pc' = "exited" /\ exit_code' = PanicExitCode /\ UNCHANGED permits
       ELSE pc' = "file_system" /\ permits' = NewSemaphore(job_limit) /\ UNCHANGED exit_code
    /\ UNCHANGED <<job_limit, waiters, rpc, permit, alive, output, spawned, status,
                   cvars, fs, configuration, database_path, arguments, paths,
                   modules, dependencies, reread, turn, result, calls, fault,
                   stderr, write_result>>

\* lines 34-38: OsFileSystem::new(..), the last argument of Context::new
ConstructFileSystem ==
    /\ pc = "file_system"
    /\ \/ /\ file_limit' = OpenFileBudget(target_os, job_limit)
          /\ pc' = "execute"
          /\ UNCHANGED exit_code
       \/ /\ Overflows(job_limit)
          /\ pc' = "exited" /\ exit_code' = PanicExitCode
          /\ UNCHANGED file_limit
    /\ UNCHANGED <<rvars, target_os, version, fs, configuration, database_path,
                   arguments, paths, modules, dependencies, reread, turn, result,
                   calls, fault, stderr, write_result>>

\* the `?` operator: execute returns Err(e); step names the failing call
Fail(step, e) ==
    /\ fault' = (IF fault = <<>> THEN <<step, e>> ELSE fault)
    /\ pc' = "returned"
    /\ result' = e

\* lines 72-74: `set_current_dir(directory)?` when a directory is given
SetCurrentDir ==
    /\ pc = "execute"
    /\ \/ pc' = "canonicalize" /\ UNCHANGED <<result, fault>>
       \/ Fail("set_current_dir", "Io")
    /\ UNCHANGED <<rvars, cvars, fs, configuration, database_path,
                   arguments, paths, modules, dependencies, reread, turn,
                   calls, stderr, write_result, exit_code>>

\* lines 76-85: `canonicalize_path(file or DEFAULT_BUILD_FILE).await?`
CanonicalizeRootError(e) == Fail("canonicalize_path", e)
CanonicalizeRoot ==
    /\ pc = "canonicalize"
    /\ \/ pc' = "parse_modules" /\ UNCHANGED <<result, fault>>
       \/ CanonicalizeRootError("Io")
    /\ UNCHANGED <<rvars, cvars, fs, configuration, database_path,
                   arguments, paths, modules, dependencies, reread, turn,
                   calls, stderr, write_result, exit_code>>

(* ---------------------------- parse_modules ---------------------------- *)

\* the `?`s of parse_modules, passed on by the `?` of line 86
ParseModulesErrorSkipped(e) ==
    /\ fault' = (IF fault = <<>> THEN <<"parse_modules", e>> ELSE fault)
    /\ pc' = "loop"
    /\ result' = result
ParseModulesErrorPartial(e) ==
    /\ fault' = (IF fault = <<>> THEN <<"parse_modules", e>> ELSE fault)
    /\ pc' = "validate"
    /\ result' = result
ParseModulesError(e) == Fail("parse_modules", e)

\* line 125: `vec![canonicalize_path(path).await?]`, lines 126-127
ParseModulesStart ==
    /\ pc = "parse_modules"
    /\ \/ /\ paths' = <<Root>>
          /\ modules' = EmptyMap
          /\ dependencies' = EmptyMap
          /\ pc' = "loop"
          /\ UNCHANGED <<result, fault>>
       \/ /\ ParseModulesError("Io")
          /\ UNCHANGED <<paths, modules, dependencies>>
    /\ UNCHANGED <<rvars, cvars, fs, configuration, database_path,
                   arguments, reread, turn, calls, stderr, write_result, exit_code>>

\* `paths.pop()`: the last element
Top(s) == s[Len(s)]
PopKeep(s) == s
Pop(s) == SubSeq(s, 1, Len(s) - 1)

\* the orders in which a HashMap's values() may come out
Orders(sub) ==
    LET D == DOMAIN sub
        n == Cardinality(D)
    IN  { [i \in 1..n |-> sub[p[i]]] :
            p \in {q \in [1..n -> D] : \A i, j \in 1..n : i # j => q[i] # q[j]} }

\* line 155: `paths.extend(submodule_paths.values().cloned())`
ExtendFirst(rest, order) == IF order = <<>> THEN rest ELSE Append(rest, order[1])
Extend(rest, order) == rest \o order

\* lines 132-137: read_file_to_string or parse fails on the popped path
\* (a file that loaded before loads again)
LoadError ==
    /\ pc = "loop"
    /\ paths # <<>>
    /\ Top(paths) \notin DOMAIN modules
    /\ paths' = Pop(paths)
    /\ \E e \in {"Io", "Parse"} : ParseModulesError(e)
    /\ turn' = 0
    /\ UNCHANGED <<rvars, cvars, fs, configuration, database_path,
                   arguments, modules, dependencies, reread, calls,
                   stderr, write_result, exit_code>>

\* lines 139-151: the module loads, but resolve_submodule_path (lines
\* 164-176) fails to canonicalize one of its include/submodule paths
ResolveError ==
    /\ pc = "loop"
    /\ paths # <<>>
    /\ Top(paths) \notin DOMAIN modules
    /\ paths' = Pop(paths)
    /\ ParseModulesError("Io")
    /\ turn' = 0
    /\ UNCHANGED <<rvars, cvars, fs, configuration, database_path,
                   arguments, modules, dependencies, reread, calls,
                   stderr, write_result, exit_code>>

\* The file systems the model draws from.  Canonical paths other than Root
\* are numbered in the order the traversal first meets them, and all modules
\* together hold at most MaxIncludes include/submodule statements.
Known == DOMAIN modules \cup Range(paths)
Includes == LET D == DOMAIN fs
            IN  Cardinality({<<f, l>> \in D \X Literals : l \in DOMAIN fs[f]})
FirstMeeting(sub) ==
    LET New == {sub[l] : l \in DOMAIN sub} \ Known
        First(f) == CHOOSE l \in DOMAIN sub :
                        sub[l] = f /\ \A k \in DOMAIN sub : sub[k] = f => l <= k
    IN  /\ \A f \in New : \A g \in Files : (g < f) => (g \in Known \cup New)
        /\ \A f, g \in New : (f < g) => (First(f) < First(g))
InModel(sub) ==
    /\ Includes + Cardinality(DOMAIN sub) <= MaxIncludes
    /\ FirstMeeting(sub)

\* The include/submodule statements of the module at `path` with what each
\* literal canonicalizes to: the file system's answer, the same on every read.
FileSystemAnswers(path) ==
    IF path \in DOMAIN fs
    THEN {fs[path]}
    ELSE {sub \in UNION {[lits -> Files] : lits \in SUBSET Literals} : InModel(sub)}

\* lines 140-147: the literal texts of the Include and Submodule statements
Statements(answer) == DOMAIN answer

\* lines 164-176: resolve_submodule_path, the pair (literal, canonical path)
resolve_submodule_path(answer, submodule_path) ==
    <<submodule_path, answer[submodule_path]>>

\* lines 152-153: `.into_iter().collect::<HashMap<_, _>>()`
CollectByTarget(pairs) ==
    LET keep == {p \in pairs : \A q \in pairs : q[2] = p[2] => p[1] <= q[1]}
    IN  [l \in {p[1] : p \in keep} |-> (CHOOSE p \in keep : p[1] = l)[2]]
Collect(pairs) ==
    [l \in {p[1] : p \in pairs} |-> (CHOOSE p \in pairs : p[1] = l)[2]]

\* lines 139-153: submodule_paths of the module whose statements resolve
\* as `answer`
SubmodulePaths(answer) ==
    Collect({resolve_submodule_path(answer, l) : l \in Statements(answer)})

\* lines 129-159: one iteration of the loop, every step succeeding
LoadModule ==
    /\ pc = "loop"
    /\ paths # <<>>
    /\ LET path == Top(paths) IN
       \E answer \in FileSystemAnswers(path) :
       LET submodule_paths == SubmodulePaths(answer) IN
       \E order \in Orders(submodule_paths) :
        /\ Len(Extend(Pop(paths), order)) <= MaxWork
        /\ fs' = Insert(fs, path, answer)
        /\ paths' = Extend(Pop(paths), order)
        /\ modules' = Insert(modules, path, Statements(answer))
        /\ dependencies' = Insert(dependencies, path, submodule_paths)
        /\ reread' = (IF path \in DOMAIN modules THEN reread \cup {path} ELSE reread)
        /\ turn' = 1 - turn
    /\ UNCHANGED <<rvars, cvars, configuration, database_path,
                   arguments, pc, result, calls, fault, stderr, write_result, exit_code>>

\* line 161: the work-list is empty, `Ok((modules, dependencies))`
ParseModulesReturn ==
    /\ pc = "loop"
    /\ paths = <<>>
    /\ pc' = "validate"
    /\ turn' = 0
    /\ UNCHANGED <<rvars, cvars, fs, configuration, database_path,
                   arguments, paths, modules, dependencies, reread,
                   result, calls, fault, stderr, write_result, exit_code>>

(* ------------------------- the rest of execute ------------------------- *)

Succ(deps, f) ==
    IF f \in DOMAIN deps THEN {deps[f][l] : l \in DOMAIN deps[f]} ELSE {}

RECURSIVE Closure(_, _)
Closure(deps, S) ==
    LET T == S \cup UNION {Succ(deps, f) : f \in S}
    IN  IF T = S THEN S ELSE Closure(deps, T)

HasCycle(deps) == \E f \in DOMAIN deps : f \in Closure(deps, Succ(deps, f))

\* module_dependency::validate: a structural error if any path revisits
\* an ancestor
validate(deps) == IF HasCycle(deps) THEN "Cycle" ELSE "Ok"

\* line 88: `validate(&dependencies)?`
ValidateError(e) == Fail("validate", e)
Validate ==
    /\ pc = "validate"
    /\ calls' = Append(calls, "validate")
    /\ IF validate(dependencies) = "Ok"
       THEN pc' = "compile" /\ UNCHANGED <<result, fault>>
       ELSE ValidateError(validate(dependencies))
    /\ UNCHANGED <<rvars, cvars, fs, configuration, database_path,
                   arguments, paths, modules, dependencies, reread, turn,
                   stderr, write_result, exit_code>>

\* A path is a sequence of components, a component a sequence of
\* characters or whole names.
\* root_module_path: the canonical path of the build file
RootModulePath == << <<"/">>, <<"project">>, <<"build.ninja">> >>
\* Path::parent
Parent(path) == SubSeq(path, 1, Len(path) - 1)
\* Path::join with a relative component
Join(path, component) == Append(path, component)

\* what compile returns: a Configuration with or without a build directory
Configurations ==
    {[build_directory |-> <<>>], [build_directory |-> << << <<"out">> >> >>]}

\* line 22
DATABASE_DIRECTORY == <<".turtle">>

\* Package versions (MAJOR.MINOR.PATCH, optionally -PRE), as characters.
\* Numeric identifiers have no leading zero.
RECURSIVE Numerals(_)
Numerals(n) ==
    IF n = 0 THEN {}
    ELSE IF n = 1 THEN {<<"0">>, <<"1">>}
    ELSE Numerals(n - 1)
         \cup {Append(d, c) : d \in {e \in Numerals(n - 1) : e[1] # "0" /\ Len(e) = n - 1},
                              c \in {"0", "1"}}
Versions ==
    {a \o <<".">> \o b \o <<".">> \o c \o pre :
        a \in Numerals(MaxDigits), b \in Numerals(MaxDigits),
        c \in Numerals(MaxDigits), pre \in {<<>>, <<"-", "1">>}}

\* line 98: `.replace('.', "_")`
DropDots(v) == SelectSeq(v, LAMBDA ch : ch # ".")
ReplaceDots(v) == [i \in 1..Len(v) |-> IF v[i] = "." THEN "_" ELSE v[i]]

\* lines 93-98: the argument of initialize
DatabasePath(config, root_module_path, v) ==
    LET base == IF config.build_directory # <<>>
                THEN config.build_directory[1]
                ELSE Parent(root_module_path)
    IN  Join(Join(base, DATABASE_DIRECTORY), ReplaceDots(v))

\* line 90: `compile(&modules, &dependencies, &root_module_path)?`
CompileErrorIgnored(e) ==
    /\ fault' = (IF fault = <<>> THEN <<"compile", e>> ELSE fault)
    /\ pc' = "initialize"
    /\ result' = result
CompileError(e) == Fail("compile", e)
Compile ==
    /\ pc = "compile"
    /\ calls' = Append(calls, "compile")
    /\ \/ /\ \E c \in Configurations : configuration' = <<c>>
          /\ pc' = "initialize"
          /\ UNCHANGED <<result, fault>>
       \/ CompileError("Compile") /\ UNCHANGED configuration
    /\ UNCHANGED <<rvars, cvars, fs, database_path,
                   arguments, paths, modules, dependencies, reread, turn,
                   stderr, write_result, exit_code>>

\* lines 92-99: `context.database().initialize(..)?`
InitializeErrorIgnored(e) ==
    /\ fault' = (IF fault = <<>> THEN <<"initialize", e>> ELSE fault)
    /\ pc' = "tool"
    /\ result' = result
InitializeError(e) == Fail("initialize", e)
Initialize ==
    /\ pc = "initialize"
    /\ calls' = Append(calls, "initialize")
    /\ database_path' = DatabasePath(configuration[1], RootModulePath, version)
    /\ \/ pc' = "tool" /\ UNCHANGED <<result, fault>>
       \/ InitializeError("Storage")
    /\ UNCHANGED <<rvars, cvars, fs, configuration,
                   arguments, paths, modules, dependencies, reread, turn,
                   stderr, write_result, exit_code>>

\* line 101: `if let Some(tool) = &arguments.tool`
ToolSelectedNever(tool) == FALSE
ToolSelected(tool) == tool # "None"

\* lines 101-104 and 118: a tool is selected
CleanDead ==
    /\ pc = "tool"
    /\ ToolSelected(arguments.tool)
    /\ calls' = Append(calls, "clean_dead")
    /\ \/ pc' = "returned" /\ result' = "Ok" /\ UNCHANGED fault
       \/ \E e \in {"Storage", "Io", "Other"} : Fail("clean_dead", e)
    /\ UNCHANGED <<rvars, cvars, fs, configuration, database_path,
                   arguments, paths, modules, dependencies, reread, turn,
                   stderr, write_result, exit_code>>

\* lines 105-116 and 118: no tool is selected, the build runs
Run ==
    /\ pc = "tool"
    /\ ~ToolSelected(arguments.tool)
    /\ calls' = Append(calls, "run")
    /\ \/ pc' = "returned" /\ result' = "Ok" /\ UNCHANGED fault
       \/ \E e \in {"Build", "Storage", "Io", "Other"} : Fail("run", e)
    /\ UNCHANGED <<rvars, cvars, fs, configuration, database_path,
                   arguments, paths, modules, dependencies, reread, turn,
                   stderr, write_result, exit_code>>

(* -------------------------------- main --------------------------------- *)

\* line 43: `!arguments.quiet || !matches!(error, ApplicationError::Build)`
ShouldWriteAnd(quiet, error) == ~quiet /\ error # "Build"
ShouldWrite(quiet, error) == ~quiet \/ error # "Build"

\* lines 49-57: `format!("{}{}\n", prefix or "", error)`
Line(log_prefix, error) == log_prefix \o <<error, "\n">>

\* line 67: `exit(1)`
ExitCodeIfWritten(written) == IF written THEN 1 ELSE 0
ExitCodeOnError(written) == 1

\* line 42 with execute returning Ok: main returns
MainReturn ==
    /\ pc = "returned"
    /\ result = "Ok"
    /\ pc' = "exited"
    /\ exit_code' = 0
    /\ UNCHANGED <<rvars, cvars, fs, configuration, database_path,
                   arguments, paths, modules, dependencies, reread, turn,
                   result, calls, fault, stderr, write_result>>

\* lines 42-62: execute returned Err(error); the line is written unless it
\* is suppressed; `.unwrap()` panics when write_stderr fails
Report ==
    /\ pc = "returned"
    /\ result \in Errors
    /\ IF ShouldWrite(arguments.quiet, result)
       THEN /\ stderr' = Append(stderr, Line(arguments.log_prefix, result))
            /\ \/ write_result' = "Ok" /\ pc' = "sleep" /\ UNCHANGED exit_code
               \/ write_result' = "Err" /\ pc' = "exited" /\ exit_code' = PanicExitCode
       ELSE /\ pc' = "sleep"
            /\ UNCHANGED <<stderr, write_result, exit_code>>
    /\ UNCHANGED <<rvars, cvars, fs, configuration, database_path,
                   arguments, paths, modules, dependencies, reread, turn,
                   result, calls, fault>>

\* lines 64-67: `sleep(..).await; exit(1)`
Exit ==
    /\ pc = "sleep"
    /\ pc' = "exited"
    /\ exit_code' = ExitCodeOnError(stderr # <<>>)
    /\ UNCHANGED <<rvars, cvars, fs, configuration, database_path,
                   arguments, paths, modules, dependencies, reread, turn,
                   result, calls, fault, stderr, write_result>>

\* The runner under concurrent callers: execute is inside run::run, which
\* hands commands to the runner.
InitRunner ==
    /\ \E n \in 0..MaxJobLimit : NewRunner(n)
    /\ target_os = "other"
    /\ version = <<"1", ".", "0", ".", "0">>
    /\ file_limit = OpenFileBudget(target_os, job_limit)
    /\ fs = Insert(EmptyMap, Root, EmptyMap)
    /\ configuration = << [build_directory |-> <<>>] >>
    /\ database_path = DatabasePath(configuration[1], RootModulePath, version)
    /\ arguments = [quiet |-> FALSE, log_prefix |-> <<>>, tool |-> "None"]
    /\ pc = "tool"
    /\ paths = <<>>
    /\ modules = Insert(EmptyMap, Root, {})
    /\ dependencies = Insert(EmptyMap, Root, EmptyMap)
    /\ reread = {}
    /\ turn = 0
    /\ result = "none"
    /\ calls = <<"validate", "compile", "initialize">>
    /\ fault = <<>>
    /\ stderr = <<>>
    /\ write_result = "none"
    /\ exit_code = -1

SpecRunner == InitRunner /\ [][NextRunner]_vars

\* The executor polls every ready future, and every spawned process
\* eventually exits (or its await fails).
FairRunner ==
    /\ SpecRunner
    /\ \A c \in Callers :
        /\ WF_vars(Spawn(c) \/ SpawnError(c))
        /\ WF_vars(ProcessExit(c) \/ AwaitError(c))
        /\ WF_vars(Return(c))

InitMain ==
    /\ NewRunner(MaxJobLimit)
    /\ target_os = "other"
    /\ version = <<"1", ".", "0", ".", "0">>
    /\ file_limit = OpenFileBudget(target_os, MaxJobLimit)
    /\ fs = EmptyMap
    /\ configuration = <<>>
    /\ database_path = <<>>
    /\ arguments \in ArgumentsSet
    /\ pc = "execute"
    /\ paths = <<>>
    /\ modules = EmptyMap
    /\ dependencies = EmptyMap
    /\ reread = {}
    /\ turn = 0
    /\ result = "none"
    /\ calls = <<>>
    /\ fault = <<>>
    /\ stderr = <<>>
    /\ write_result = "none"
    /\ exit_code = -1

NextMain ==
    \/ SetCurrentDir
    \/ CanonicalizeRoot
    \/ ParseModulesStart
    \/ LoadError
    \/ ResolveError
    \/ LoadModule
    \/ ParseModulesReturn
    \/ Validate
    \/ Compile
    \/ Initialize
    \/ CleanDead
    \/ Run
    \/ MainReturn
    \/ Report
    \/ Exit

SpecMain == InitMain /\ [][NextMain]_vars

\* main from Arguments::parse() to the finished context, for every job
\* limit a usize holds and both values of cfg!(target_os = "macos")
InitContext ==
    /\ job_limit \in Words
    /\ permits = 0
    /\ waiters = <<>>
    /\ rpc = [c \in Callers |-> "idle"]
    /\ permit = [c \in Callers |-> FALSE]
    /\ alive = {}
    /\ output = [c \in Callers |-> "none"]
    /\ spawned = [c \in Callers |-> 0]
    /\ status = [c \in Callers |-> -1]
    /\ target_os \in {"macos", "other"}
    /\ version = <<"1", ".", "0", ".", "0">>
    /\ file_limit = -1
    /\ fs = EmptyMap
    /\ configuration = <<>>
    /\ database_path = <<>>
    /\ arguments = [quiet |-> FALSE, log_prefix |-> <<>>, tool |-> "None"]
    /\ pc = "main"
    /\ paths = <<>>
    /\ modules = EmptyMap
    /\ dependencies = EmptyMap
    /\ reread = {}
    /\ turn = 0
    /\ result = "none"
    /\ calls = <<>>
    /\ fault = <<>>
    /\ stderr = <<>>
    /\ write_result = "none"
    /\ exit_code = -1

\* execute from compile on, for a project of one module without includes,
\* for every package version
InitDatabase ==
    /\ NewRunner(MaxJobLimit)
    /\ target_os = "other"
    /\ version \in Versions
    /\ file_limit = OpenFileBudget(target_os, MaxJobLimit)
    /\ fs = Insert(EmptyMap, Root, EmptyMap)
    /\ configuration = <<>>
    /\ database_path = <<>>
    /\ arguments \in ArgumentsSet
    /\ pc = "compile"
    /\ paths = <<>>
    /\ modules = Insert(EmptyMap, Root, {})
    /\ dependencies = Insert(EmptyMap, Root, EmptyMap)
    /\ reread = {}
    /\ turn = 0
    /\ result = "none"
    /\ calls = <<"validate">>
    /\ fault = <<>>
    /\ stderr = <<>>
    /\ write_result = "none"
    /\ exit_code = -1

NextDatabase ==
    \/ Compile
    \/ Initialize
    \/ CleanDead
    \/ Run
    \/ MainReturn
    \/ Report
    \/ Exit

SpecDatabase == InitDatabase /\ [][NextDatabase]_vars

\* parse_modules alone, called with the canonical root path
InitResolve ==
    /\ NewRunner(MaxJobLimit)
    /\ target_os = "other"
    /\ version = <<"1", ".", "0", ".", "0">>
    /\ file_limit = OpenFileBudget(target_os, MaxJobLimit)
    /\ fs = EmptyMap
    /\ configuration = <<>>
    /\ database_path = <<>>
    /\ arguments = [quiet |-> FALSE, log_prefix |-> <<>>, tool |-> "None"]
    /\ pc = "parse_modules"
    /\ paths = <<>>
    /\ modules = EmptyMap
    /\ dependencies = EmptyMap
    /\ reread = {}
    /\ turn = 0
    /\ result = "none"
    /\ calls = <<>>
    /\ fault = <<>>
    /\ stderr = <<>>
    /\ write_result = "none"
    /\ exit_code = -1

NextResolve ==
    \/ ParseModulesStart
    \/ LoadError
    \/ ResolveError
    \/ LoadModule
    \/ ParseModulesReturn

SpecResolve == InitResolve /\ [][NextResolve]_vars

\* the future is polled for as long as its file-system operations return
FairResolve == SpecResolve /\ WF_vars(NextResolve)

NextContext == ConstructRunner \/ ConstructFileSystem

SpecContext == InitContext /\ [][NextContext]_vars

\* the main task is always scheduled again
FairMain == SpecMain /\ WF_vars(NextMain)

Spec == SpecMain

(* ============================== claims ================================= *)

InFlight == {c \in Callers : rpc[c] # "idle"}
Holders == {c \in Callers : permit[c]}

C2_PermitConservation ==
    /\ Cardinality(Holders) + permits = job_limit
    /\ Holders \subseteq InFlight
    /\ (InFlight = {} => permits = job_limit)

C2_Witness ==
    /\ InFlight = {}
    /\ job_limit = 2
    /\ \E c1, c2, c3 \in Callers :
        /\ c1 # c2 /\ c2 # c3 /\ c1 # c3
        /\ output[c1] = "Ok"
        /\ output[c2] = "Err" /\ spawned[c2] = 0
        /\ output[c3] = "Err" /\ spawned[c3] = 1

(* ----------------------------- resolution ------------------------------ *)

Called(name) == name \in Range(calls)
Times(name) == Cardinality({i \in 1..Len(calls) : calls[i] = name})
Returned == pc \in {"returned", "sleep", "exited"}

\* the model's work-list bound stops the traversal here
Truncated ==
    /\ pc = "loop" /\ paths # <<>>
    /\ Top(paths) \in DOMAIN dependencies
    /\ Len(paths) - 1 + Cardinality(DOMAIN dependencies[Top(paths)]) > MaxWork

\* C3: when some module reaches itself through include/submodule
\* references, resolution ends with the structural cycle error (or with the
\* error of a module that failed to load), and compile is never invoked
\* with that module set.
C3_CycleRejected ==
    /\ [](HasCycle(dependencies) => ~Called("compile"))
    /\ (pc = "loop" /\ HasCycle(dependencies))
          ~> (result \in {"Cycle", "Io", "Parse"} \/ Truncated)

\* C4: every canonical module path is read and parsed at most once per
\* resolution.
C4_ReadAtMostOnce == reread = {}

\* C5: when a canonicalize_path, read_file_to_string or parse step of
\* parse_modules fails, execute returns that error and nothing was passed
\* to validate or compile.
C5_AllOrNothing ==
    (fault # <<>> /\ fault[1] = "parse_modules") =>
        /\ Returned
        /\ result = fault[2]
        /\ calls = <<>>

C5_Witness ==
    /\ fault = <<"parse_modules", "Parse">>
    /\ Cardinality(DOMAIN modules) = 2
    /\ paths # <<>>
    /\ pc = "exited"

\* C6: when root canonicalization, parse_modules, validate or compile
\* fails, that error is the result of execute, the database is never
\* initialized and neither run::run nor tool::clean_dead is invoked.
C6_NoPartialExecution ==
    (fault # <<>> /\ fault[1] \in {"canonicalize_path", "parse_modules",
                                     "validate", "compile"}) =>
        /\ Returned
        /\ result = fault[2]
        /\ ~Called("initialize") /\ ~Called("run") /\ ~Called("clean_dead")

C6_Witness ==
    /\ fault = <<"compile", "Compile">>
    /\ calls = <<"validate", "compile">>
    /\ pc = "exited"

\* C7: when database().initialize fails, execute returns that error and
\* neither run::run nor clean_dead is invoked; run::run or clean_dead is
\* invoked only after initialize was called exactly once and succeeded.
C7_StorageErrorsFatal ==
    /\ (fault # <<>> /\ fault[1] = "initialize") =>
            /\ Returned
            /\ result = fault[2]
            /\ ~Called("run") /\ ~Called("clean_dead")
    /\ \A i \in 1..Len(calls) :
            calls[i] \in {"run", "clean_dead"} =>
                /\ Times("initialize") = 1
                /\ \E j \in 1..(i - 1) : calls[j] = "initialize"
                /\ (fault # <<>> => fault[1] # "initialize")

C7_Witness ==
    /\ fault = <<"initialize", "Storage">>
    /\ calls = <<"validate", "compile", "initialize">>
    /\ exit_code = 1

(* --------------------------- admission gate ---------------------------- *)

\* the run call of c got its permit and went on to construct its process
Spawning(c) ==
    \/ rpc[c] = "running"
    \/ rpc[c] = "idle" /\ output[c] = "Err" /\ spawned[c] = 0

\* a permit is granted to nobody but the oldest waiting caller
FirstComeFirstServed ==
    \A c \in Callers :
        (permit'[c] /\ ~permit[c] /\ waiters # <<>>) => c = Head(waiters)

\* C8 (as claimed): for any job limit, a run call waiting for a permit
\* eventually acquires one and gets to spawn its process, and no later
\* caller is granted a permit ahead of it.
C8_NoStarvationAnyLimit ==
    /\ \A c \in Callers : (rpc[c] = "waiting") ~> Spawning(c)
    /\ [][FirstComeFirstServed]_vars

\* C8 (amended): for any job limit of at least 1, a run call waiting for a
\* permit eventually acquires one and gets to spawn its process, and no
\* later caller is granted a permit ahead of it.
C8_NoStarvation ==
    /\ \A c \in Callers :
        (job_limit >= 1 /\ rpc[c] = "waiting") ~> Spawning(c)
    /\ [][FirstComeFirstServed]_vars

C8_Witness ==
    /\ job_limit = 1
    /\ Len(waiters) = 2
    /\ \E c \in Callers : rpc[c] = "running" /\ output[Head(waiters)] = "none"

(* ------------------------------ reporting ------------------------------ *)

\* C9: when execute fails, main hands exactly one line (the log prefix if
\* given, the error, a newline) to write_stderr, unless the quiet flag is
\* set and the error is Build, in which case it hands it nothing.
C9_QuietFlag ==
    (pc \in {"sleep", "exited"} /\ result \in Errors) =>
        IF arguments.quiet /\ result = "Build"
        THEN stderr = <<>>
        ELSE stderr = << arguments.log_prefix \o <<result, "\n">> >>

C9_Witness ==
    /\ pc = "exited"
    /\ arguments.quiet
    /\ arguments.log_prefix # <<>>
    /\ result = "Storage"
    /\ stderr = << <<"tag: ", "Storage", "\n">> >>

C11_OpenFileBudget ==
    file_limit # -1 =>
        LET limit == IF target_os = "macos" THEN 256 ELSE 1024
            budget == limit - 3 * (job_limit + 1)
        IN  /\ file_limit = (IF budget >= 1 THEN budget ELSE 1)
            /\ file_limit >= 1
            /\ file_limit <= limit - 3

C11_Witness ==
    /\ pc = "execute"
    /\ job_limit = MAX_PERMITS
    /\ target_os = "other"
    /\ file_limit = 1

(* -------------------------- the command runner ------------------------- *)

\* C12: a run call spawns at most one process; an error constructing or
\* awaiting it is returned as Err with no second spawn, and a process that
\* exits, with any status, yields Ok for that one attempt.
C12_NoRetry ==
    \A c \in Callers :
        /\ spawned[c] <= 1
        /\ (output[c] = "Err" => rpc[c] = "idle" /\ status[c] = -1)
        /\ (output[c] = "Ok" => rpc[c] = "idle" /\ spawned[c] = 1 /\ status[c] # -1)
        /\ (rpc[c] = "exited" => status[c] # -1 /\ spawned[c] = 1)

C12_Witness ==
    \E c1, c2, c3 \in Callers :
        /\ output[c1] = "Ok" /\ status[c1] = 1
        /\ output[c2] = "Err" /\ spawned[c2] = 1
        /\ output[c3] = "Err" /\ spawned[c3] = 0

(* ----------------------------- the database ---------------------------- *)

\* C13: the path passed to database().initialize is <base>/.turtle/<V>,
\* <base> being the configuration's build directory when one is declared
\* and the parent of the canonical root module path otherwise, <V> the
\* package version with every '.' replaced by '_'; no other version maps
\* to the same directory for the same base.
C13_DatabaseLocation ==
    Called("initialize") =>
        LET base == IF configuration[1].build_directory # <<>>
                    THEN configuration[1].build_directory[1]
                    ELSE << <<"/">>, <<"project">> >>
            V == [i \in 1..Len(version) |->
                    IF version[i] = "." THEN "_" ELSE version[i]]
        IN  /\ database_path = base \o << <<".turtle">>, V >>
            /\ pc = "tool" =>
                  \A other \in Versions \ {version} :
                      DatabasePath(configuration[1], RootModulePath, other)
                          # database_path

C13_Witness ==
    /\ pc = "tool"
    /\ configuration[1].build_directory = <<>>
    /\ version = <<"1", ".", "1", "0", ".", "0">>
    /\ database_path = << <<"/">>, <<"project">>, <<".turtle">>,
                          <<"1", "_", "1", "0", "_", "0">> >>

(* ------------------------ the resolved module set ----------------------- *)

\* parse_modules returned Ok: execute is at or past validate
ParsedOk ==
    \/ pc \in {"validate", "compile", "initialize", "tool"}
    \/ /\ Returned
       /\ fault = <<>> \/ fault[1] \in {"validate", "compile", "initialize",
                                         "clean_dead", "run"}

\* C14: after parse_modules returns Ok the module map has one entry per
\* canonical path: literals that canonicalize to the same file, in one
\* module or in several, lead to the same key and the same module entry,
\* and the dependency map keeps every literal as its own key with that
\* canonical path as its value.
C14_OneModulePerCanonicalPath ==
    ParsedOk =>
        /\ \A f \in DOMAIN modules :
              /\ modules[f] = Statements(fs[f])
              /\ DOMAIN dependencies[f] = DOMAIN fs[f]
              /\ \A l \in DOMAIN fs[f] : dependencies[f][l] = fs[f][l]
        /\ \A f, g \in DOMAIN dependencies :
              \A l \in DOMAIN fs[f], k \in DOMAIN fs[g] :
                  fs[f][l] = fs[g][k] =>
                      /\ dependencies[f][l] = dependencies[g][k]
                      /\ dependencies[f][l] \in DOMAIN modules
                      /\ modules[dependencies[f][l]] = modules[dependencies[g][k]]

C14_Witness ==
    /\ pc = "validate"
    /\ \E l, k \in DOMAIN dependencies[Root] :
          l # k /\ dependencies[Root][l] = dependencies[Root][k]
    /\ Cardinality(DOMAIN modules) = 2

\* the dependency map leaves no reference unresolved
Complete(deps) ==
    /\ Root \in DOMAIN deps
    /\ \A f \in DOMAIN deps : Succ(deps, f) \subseteq DOMAIN deps

\* C15: validate is called at most once, only after parse_modules
\* returned Ok with the complete dependency map and an empty work-list,
\* never while modules are loading, and before compile.
C15_ValidationOrdering ==
    /\ Times("validate") <= 1
    /\ pc \in {"execute", "canonicalize", "parse_modules", "loop", "validate"}
          => calls = <<>>
    /\ Called("validate") =>
          /\ paths = <<>>
          /\ Complete(dependencies)
          /\ fault = <<>> \/ fault[1] \notin {"set_current_dir", "canonicalize_path",
                                                "parse_modules"}
    /\ Called("compile") => Len(calls) >= 2 /\ calls[1] = "validate" /\ calls[2] = "compile"

C15_Witness ==
    /\ calls = <<"validate", "compile">>
    /\ Cardinality(DOMAIN dependencies) = 3
    /\ reread # {}

\* database().initialize returned Ok
InitializePassed ==
    /\ Called("initialize")
    /\ fault = <<>> \/ fault[1] # "initialize"

\* C16: an invocation that passes database initialization invokes exactly
\* one of tool::clean_dead and run::run, once: clean_dead when a tool is
\* selected (and then no build is dispatched), run::run when none is (and
\* then clean_dead never runs).
C16_ToolExclusive ==
    /\ Times("clean_dead") + Times("run") <= 1
    /\ Called("clean_dead") => arguments.tool = "CleanDead"
    /\ Called("run") => arguments.tool = "None"
    /\ Called("clean_dead") \/ Called("run") =>
          InitializePassed
    /\ (Returned /\ InitializePassed) =>
          /\ Times("clean_dead") + Times("run") = 1
          /\ Called("clean_dead") <=> arguments.tool = "CleanDead"
          /\ Called("run") <=> arguments.tool = "None"

C16_Witness ==
    /\ pc = "exited"
    /\ arguments.tool = "CleanDead"
    /\ calls = <<"validate", "compile", "initialize", "clean_dead">>
    /\ result = "Ok"

\* C17: whenever parse_modules returns Ok the module map and the
\* dependency map have the same keys, the canonical root path among them,
\* and every canonical path that is a value of the dependency map is a key
\* of the module map: the keys are exactly the modules reachable from the
\* root.
C17_Closure ==
    ParsedOk =>
        /\ DOMAIN modules = DOMAIN dependencies
        /\ Root \in DOMAIN modules
        /\ \A f \in DOMAIN dependencies :
              \A l \in DOMAIN dependencies[f] : dependencies[f][l] \in DOMAIN modules
        /\ DOMAIN modules = Closure(fs, {Root})

C17_Witness ==
    /\ pc = "validate"
    /\ DOMAIN modules = Files
    /\ \E f \in Files \ {Root} : Cardinality(DOMAIN dependencies[f]) = 2

\* C18: when the include/submodule graph of the module set is acyclic and
\* every file-system and parse operation returns, parse_modules
\* terminates, with or without modules shared between several references.
C18_Termination == (pc = "loop") ~> (pc # "loop" \/ HasCycle(fs))

C18_Witness ==
    /\ pc = "validate"
    /\ paths = <<>>
    /\ ~HasCycle(fs)
    /\ DOMAIN modules = Files
    /\ reread # {}

====
